---------------------------- MODULE Spec2Model ----------------------------
(***************************************************************************)
(* rs-hyperliquid: the WebSocket client's connection/session lifecycle     *)
(* (src/src/client.rs) and its shared ClientState (src/src/client_state.rs).*)
(*                                                                         *)
(* The specifications, all over the same variables:                        *)
(*   Spec      - HyperliquidWebSocketClient::run driven by a transport     *)
(*               that may fail or deliver any frame at every step;         *)
(*   SpecState - the ClientState object driven by arbitrary callers of its *)
(*               public methods (validate_trade_sequence and the others);  *)
(*   SpecMain  - main: its startup, then tokio::select!: client.run() to the*)
(*               bounded event channel, UIController::run reading it, the  *)
(*               Ctrl+C future, and time passing while the client waits.   *)
(*   SpecLib   - client.run() with the EventReceiver dropped;              *)
(*   SpecUi    - UIController::run fed by an arbitrary sender.             *)
(***************************************************************************)
EXTENDS Integers, Sequences, FiniteSets, TLC

(***************************************************************************)
(* Bounds of the model.                                                    *)
(***************************************************************************)
\* largest --max-reconnects value explored (0 = unlimited)
MaxReconnectsCfg == 2
\* connect_and_run invocations explored in one run()
MaxAttempts == 3
\* frames read from the transport in one run()
MaxFrames == 1
\* trades carried by all the frames of one run()
MaxTrades == 2
\* ClientState method calls explored by SpecState
MaxOps == 4
\* the channel capacity explored (EVENT_CHANNEL_CAPACITY is 10_000 in
\* events.rs; the channel behaves alike for every positive capacity)
EVENT_CHANNEL_CAPACITY == 2
\* events handed to send_event in one run of SpecMain
MaxLog == 6
\* timeout / check_interval periods one wait of the client is watched for
MaxWait == 4
\* events an arbitrary sender hands to the channel in one run of SpecUi
MaxUiEvents == 4

\* coins a trade or a subscription acknowledgement may name
Coins == {"BTC", "ETH"}
\* trade identifiers (i64): negative, zero and positive ones
TradeIds == {-1, 0, 1, 2}
\* what the transport delivers in a trade: the coin of the subscription, an
\* identifier, and a timestamp (ms) that is valid (positive) or not
WireCoins == {"BTC"}
WireTradeIds == {1}
WireTimes == {0, 1}

VARIABLES
    max_reconnects, \* config.websocket.max_reconnects
    state,          \* the ClientState behind SharedClientState
    pc,             \* where run() stands
    result,         \* what run() returned
    events,         \* every ClientEvent handed to send_event, in order
    attempts,       \* connect_and_run invocations so far
    frames,         \* frames read so far
    failures,       \* failed attempts since the last session that reached the receive loop
    ops,            \* SpecState: the ClientState method calls made so far
    last_frame,     \* the Text or Close frame the turn of handle_message_stream's loop holds
    pending,        \* the trades of that frame the handler's loop has not reached yet
    main,           \* main(): its startup, inside select!, or how it ended
    sent,           \* how many of `events` event_sender.send has completed for
    queue,          \* the mpsc channel: events sent and not yet received
    received,       \* every event UIController::run took off the channel, in order
    waited,         \* periods elapsed since the client last made a step
    handles,        \* transport handles (TLS stream / WebSocket) alive
    max_trades,     \* UIOptions::max_trades (--max-trades, 0 = no limit)
    ui_trade_count, \* TradeFormatter::trade_count
    format,         \* TradeFormatter::format (--format)
    quiet,          \* TradeFormatter::quiet (--quiet)
    header_printed, \* UIController::header_printed
    output          \* the table lines printed so far: "header" and "row"

\* main's side of the process: untouched by a step of client.run()
uiVars == <<header_printed, output>>

\* the presentation's options, fixed when UIController::new has run
uiConfig == <<format, quiet>>

procVars == <<main, sent, queue, received, max_trades, ui_trade_count, uiVars, uiConfig>>

vars == <<max_reconnects, state, pc, result, events, attempts, frames, failures, ops,
          last_frame, pending, procVars, waited, handles>>

clientVars == <<pc, result, events, attempts, frames, failures, last_frame, pending, procVars, waited,
                handles>>

(***************************************************************************)
(* Instant::now() and Uuid::new_v4(): a logical clock and a fresh id.      *)
(***************************************************************************)
Now == 1 + attempts + frames + Len(ops)

FreshId == 1 + attempts + Len(ops)

(***************************************************************************)
(* ClientState (client_state.rs).  Option<Instant> is 0 for None.          *)
(***************************************************************************)
ClientStateDefault ==
    [ connection_id            |-> 0,
      reconnect_count          |-> 0,
      last_message_time        |-> 0,
      trade_count              |-> 0,
      is_connected             |-> FALSE,
      total_messages_received  |-> 0,
      last_trade_ids           |-> [c \in {} |-> 0],
      duplicate_trades         |-> 0,
      sequence_gaps            |-> 0,
      invalid_timestamps       |-> 0,
      last_disconnection_time  |-> 0 ]

\* mutant: the reconnect counter survives the reset
reset_connection_KeepsCount(s, id, now) ==
    [s EXCEPT !.connection_id = id,
              !.last_message_time = now,
              !.is_connected = TRUE]

\* mutant: a new connection starts with a fresh ClientState's integrity data
reset_connection_ClearsIntegrity(s, id, now) ==
    [s EXCEPT !.connection_id = id,
              !.last_message_time = now,
              !.is_connected = TRUE,
              !.reconnect_count = 0,
              !.last_trade_ids = [c \in {} |-> 0],
              !.duplicate_trades = 0]

\* mutant: a new connection starts the trade count again
reset_connection_ResetsTradeCount(s, id, now) ==
    [s EXCEPT !.connection_id = id,
              !.last_message_time = now,
              !.is_connected = TRUE,
              !.reconnect_count = 0,
              !.trade_count = 0]

reset_connection(s, id, now) ==
    [s EXCEPT !.connection_id = id,
              !.last_message_time = now,
              !.is_connected = TRUE,
              !.reconnect_count = 0]

\* fetch_add(1) on the AtomicU32: no run explored here brings it near 2^32
increment_reconnect(s, now) ==
    [s EXCEPT !.reconnect_count = @ + 1,
              !.is_connected = FALSE,
              !.last_disconnection_time = now]

\* self.last_trade_ids.get(coin).copied().unwrap_or(0)
LastTid(s, coin) ==
    IF coin \in DOMAIN s.last_trade_ids THEN s.last_trade_ids[coin] ELSE 0

\* mutant: gap detection, "identifier not above the last one => reject"
IsDuplicate_RejectsOutOfOrder(s, coin, trade_id) ==
    trade_id <= LastTid(s, coin) /\ LastTid(s, coin) > 0

\* mutant: full-history deduplication over every identifier accepted so far
IsDuplicate_FullHistory(s, coin, trade_id) ==
    \E i \in 1..Len(ops) :
        /\ ops[i].op = "validate_trade_sequence"
        /\ ops[i].ok
        /\ ops[i].coin = coin
        /\ ops[i].tid = trade_id
        /\ trade_id > 0

\* the duplicate test of validate_trade_sequence
IsDuplicate(s, coin, trade_id) ==
    trade_id = LastTid(s, coin) /\ LastTid(s, coin) > 0

\* mutant: the map keeps the last identifier of the latest coin only
InsertTid_ForgetsOthers(m, coin, trade_id) ==
    [c \in {coin} |-> trade_id]

\* self.last_trade_ids.insert(coin, trade_id)
InsertTid(m, coin, trade_id) ==
    [c \in (DOMAIN m) \cup {coin} |-> IF c = coin THEN trade_id ELSE m[c]]

\* returns the bool and the state the call leaves behind
validate_trade_sequence(s, coin, trade_id) ==
    IF IsDuplicate(s, coin, trade_id)
    THEN [ok |-> FALSE,
          state |-> [s EXCEPT !.duplicate_trades = @ + 1]]
    ELSE [ok |-> TRUE,
          state |-> [s EXCEPT !.last_trade_ids = InsertTid(@, coin, trade_id)]]

record_invalid_timestamp(s) ==
    [s EXCEPT !.invalid_timestamps = @ + 1]

record_message(s, now) ==
    [s EXCEPT !.last_message_time = now,
              !.total_messages_received = @ + 1]

record_trade(s) ==
    [s EXCEPT !.trade_count = @ + 1]

disconnect(s) ==
    [s EXCEPT !.is_connected = FALSE]

(***************************************************************************)
(* ClientEvent (events.rs) and the inbound wire shapes (types.rs).         *)
(***************************************************************************)
Ev(type) == [type |-> type, coin |-> "", tid |-> 0, time |-> 0, attempt |-> 0]

\* mutant: the attempt number taken before the increment
Reconnecting_CountsFromZero(attempt) ==
    [Ev("Reconnecting") EXCEPT !.attempt = attempt - 1]

Reconnecting(attempt) ==
    [Ev("Reconnecting") EXCEPT !.attempt = attempt]

SubscriptionConfirmed(coin) == [Ev("SubscriptionConfirmed") EXCEPT !.coin = coin]

TradeReceived(trade) ==
    [Ev("TradeReceived") EXCEPT !.coin = trade.coin, !.tid = trade.tid, !.time = trade.time]

\* the fields of Trade the client reads: coin, tid, time
Trades == [coin : WireCoins, tid : WireTradeIds, time : WireTimes]

TradeLists(n) == UNION {[1..k -> Trades] : k \in 0..n}

\* a text payload: a JSON document reduced to what serde looks at.
\*   shape: "envelope"     an object {"channel": .., "data": ..}
\*          "positional"   the array [channel, data] (a derived struct also
\*                         deserializes from a sequence of its fields in order)
\*          "channel_only" an object {"channel": ..} without data
\*          "positional_channel_only" the array [channel]
\*          "array"        any other array
\*          "garbage"      anything else (not JSON, a number, a string, ...)
\*   data:  what the data (for "array": the array) deserializes as; "trades" is
\*          a list of Trade objects, the empty list included; "candles" a non-
\*          empty list of Candle objects; "unknown" none of the known types
EnvelopeData ==
    {"subscription", "trades", "book", "bbo", "allMids", "candles",
     "userEvent", "notification", "unknown"}

Doc(shape, data, coin, trades) ==
    [shape |-> shape, data |-> data, coin |-> coin, trades |-> trades]

Payloads(n) ==
    {Doc(sh, "subscription", c, <<>>) : sh \in {"envelope", "positional"}, c \in Coins}
    \cup {Doc(sh, "trades", "", ts) :
            sh \in {"envelope", "positional", "array"}, ts \in TradeLists(n)}
    \cup {Doc("envelope", d, "", <<>>) :
            d \in EnvelopeData \ {"subscription", "trades"}}
    \cup {Doc(sh, d, "", <<>>) :
            sh \in {"positional", "array"}, d \in {"candles", "unknown"}}
    \cup {Doc("channel_only", "", "", <<>>),
          Doc("positional_channel_only", "", "", <<>>),
          Doc("garbage", "", "", <<>>)}

\* the document gives a channel and a data: as an object or positionally
Keyed(p) == p.shape \in {"envelope", "positional"}

\* serde_json::from_str::<WebSocketMessage>: the untagged enum takes the first
\* variant, in declaration order, that the document deserializes into.  The
\* struct variants take an object (unknown keys ignored) or a sequence of
\* exactly their fields; Ping's Channel has the one field channel, so it takes
\* any object with a channel and the one-element sequence only.
from_str(p) ==
    CASE Keyed(p) /\ p.data = "subscription"  -> "SubscriptionResponse"
      [] Keyed(p) /\ p.data = "trades"        -> "TradeData"
      [] Keyed(p) /\ p.data = "book"          -> "BookData"
      [] Keyed(p) /\ p.data = "bbo"           -> "BboData"
      [] Keyed(p) /\ p.data = "allMids"       -> "AllMidsData"
      [] Keyed(p) /\ p.data = "candles"       -> "CandleData"
      [] Keyed(p) /\ p.data = "userEvent"     -> "UserEvent"
      [] Keyed(p) /\ p.data = "notification"  -> "Notification"
      [] p.shape = "array" /\ p.data = "trades"   -> "DirectTrades"
      [] p.shape = "array" /\ p.data = "candles"  -> "DirectCandles"
      [] p.shape = "envelope" /\ p.data = "unknown" -> "Ping"
      [] p.shape \in {"channel_only", "positional_channel_only"} -> "Ping"
      [] OTHER                                -> "Err"

(***************************************************************************)
(* Message handling (client.rs).  handle_frame suspends at every           *)
(* send_event(..).await and state.lock().await, so it is modelled in the   *)
(* steps between those points; each operator returns what one step leaves  *)
(* behind: the ClientState, the event log and the trades still to handle.  *)
(***************************************************************************)
Out(s, evs, todo) == [state |-> s, events |-> evs, pending |-> todo]

\* one turn of `for trade in trade_data.data`: record_trade, send
\* TradeReceived (process_trade_metrics changes nothing of the state)
handle_trade_data(s, evs, trades) ==
    Out(record_trade(s), Append(evs, TradeReceived(Head(trades))), Tail(trades))

\* mutant: a DirectTrades arm that sends the event and leaves the count alone
handle_direct_trades_NoRecord(s, evs, trades) ==
    Out(s, Append(evs, TradeReceived(Head(trades))), Tail(trades))

\* one turn of the DirectTrades arm's `for trade in trades`: record_trade,
\* send TradeReceived
handle_direct_trades(s, evs, trades) ==
    Out(record_trade(s), Append(evs, TradeReceived(Head(trades))), Tail(trades))

\* the match of handle_websocket_message up to its first await: the
\* SubscriptionResponse arm sends SubscriptionConfirmed, the two trade arms
\* enter their loop, every other arm only logs
handle_websocket_message(s, evs, variant, p) ==
    CASE variant = "SubscriptionResponse" ->
            Out(s, Append(evs, SubscriptionConfirmed(p.coin)), <<>>)
      [] variant \in {"TradeData", "DirectTrades"} -> Out(s, evs, p.trades)
      [] OTHER -> Out(s, evs, <<>>)

\* mutant: the message is counted only once its payload has parsed
handle_text_frame_CountsParsedOnly(s, evs, p, now) ==
    LET variant == from_str(p)
    IN  IF variant = "Err"
        THEN Out(s, evs, <<>>)
        ELSE handle_websocket_message(record_message(s, now), evs, variant, p)

\* the Text arm of handle_frame once MessageReceived is sent: record_message,
\* parse, dispatch
handle_text_frame(s, evs, p, now) ==
    LET s1 == record_message(s, now)
        variant == from_str(p)
    IN  IF variant = "Err"
        THEN Out(s1, evs, <<>>)
        ELSE handle_websocket_message(s1, evs, variant, p)

\* a frame of the transport: its opcode and, for Text, its payload
Frame(opcode, p) == [opcode |-> opcode, payload |-> p]

NoFrame == Frame("None", Doc("", "", "", <<>>))

\* mutant: handle_frame's Err leaves handle_message_stream through `?`
stream_continues_PropagatesErr(variant) ==
    variant # "Err"

\* handle_message_stream after handle_frame returned: `if let Err(e)` logs
\* "Continuing..." and the loop goes round, whatever the payload parsed to
stream_continues(variant) ==
    TRUE

\* mutant: a return that keeps the stream of the attempt open
release_Leaks(h) ==
    h

\* connect_and_run returns, or its future is dropped: the TLS stream and the
\* WebSocket it owns are dropped with it
release(h) ==
    0

\* mutant: the test without its "max_reconnects > 0" conjunct
MaxReconnectsReached_ZeroIsALimit(reconnect_count, max) ==
    reconnect_count >= max

\* the give-up test of handle_connection_error
MaxReconnectsReached(reconnect_count, max) ==
    reconnect_count >= max /\ max > 0

(***************************************************************************)
(* Initial state: a fresh ClientState, run() not yet started, and any      *)
(* --max-reconnects value of the explored range.                           *)
(***************************************************************************)
\* OutputFormat
Formats == {"table", "csv", "json", "minimal"}

\* everything but main's position and the presentation's options
ClientInit ==
    /\ max_reconnects \in 0..MaxReconnectsCfg
    /\ state = ClientStateDefault
    /\ pc = "run"
    /\ result = "none"
    /\ events = <<>>
    /\ attempts = 0
    /\ frames = 0
    /\ failures = 0
    /\ ops = <<>>
    /\ last_frame = NoFrame
    /\ pending = <<>>
    /\ sent = 0
    /\ queue = <<>>
    /\ received = <<>>
    /\ waited = 0
    /\ handles = 0
    /\ ui_trade_count = 0
    /\ header_printed = FALSE
    /\ output = <<>>

\* the defaults of cli.rs: --max-trades 0, --format table, --quiet off
Init ==
    /\ ClientInit
    /\ main = "select"
    /\ max_trades = 0
    /\ format = "table"
    /\ quiet = FALSE

(***************************************************************************)
(* HyperliquidWebSocketClient::run and what it calls.                      *)
(***************************************************************************)
\* run(): send Starting, enter the loop
RunStart ==
    /\ pc = "run"
    /\ events' = Append(events, Ev("Starting"))
    /\ pc' = "connect_and_run"
    /\ UNCHANGED <<max_reconnects, state, result, attempts, frames, failures, ops, last_frame, pending, procVars, handles>>
    /\ waited' = 0

\* connect_and_run(): reset_connection, send Connecting, start the TCP connect
ConnectAndRun ==
    /\ pc = "connect_and_run"
    /\ attempts < MaxAttempts
    /\ state' = reset_connection(state, FreshId, Now)
    /\ events' = Append(events, Ev("Connecting"))
    /\ attempts' = attempts + 1
    /\ pc' = "connecting"
    /\ UNCHANGED <<max_reconnects, result, frames, failures, ops, last_frame, pending, procVars, handles>>
    /\ waited' = 0

\* an Err leaves connect_and_run through `?`: run() takes its Err arm
Failed ==
    /\ pc' = "failed"
    /\ failures' = failures + 1
    /\ handles' = release(handles)

\* mutant: Connected sent as soon as the TCP connect is through
ConnectOk_EmitsConnected ==
    /\ pc = "connecting"
    /\ pc' = "handshaking"
    /\ handles' = handles + 1
    /\ events' = Append(events, Ev("Connected"))
    /\ UNCHANGED <<max_reconnects, state, result, attempts, frames, failures, ops, last_frame, pending, procVars>>
    /\ waited' = 0

\* the URL has a host and TcpStream::connect returns the stream; what follows
\* on the stream (the TLS handshake of a wss:// URL, then the upgrade
\* request) is the position "handshaking"
ConnectOk ==
    /\ pc = "connecting"
    /\ pc' = "handshaking"
    /\ handles' = handles + 1
    /\ UNCHANGED <<max_reconnects, state, result, events, attempts, frames, failures, ops, last_frame, pending, procVars>>
    /\ waited' = 0

\* mutant: an invalid URL or host ends run() with its own error
ConnectFail_Fatal ==
    /\ pc = "connecting"
    /\ pc' = "returned"
    /\ result' = "ConnectionFailed"
    /\ UNCHANGED <<max_reconnects, state, events, attempts, frames, failures, ops, last_frame, pending,
                   procVars, handles>>
    /\ waited' = 0

\* invalid host or TCP connect error
ConnectFail ==
    /\ pc = "connecting"
    /\ Failed
    /\ UNCHANGED <<max_reconnects, state, result, events, attempts, frames, ops, last_frame, pending, procVars>>
    /\ waited' = 0

\* the TLS handshake (wss://) is through, the upgrade request is written and
\* the response holds "101 Switching Protocols"; Connected is handed to
\* send_event
HandshakeOk ==
    /\ pc = "handshaking"
    /\ events' = Append(events, Ev("Connected"))
    /\ pc' = "subscribing"
    /\ UNCHANGED <<max_reconnects, state, result, attempts, frames, failures, ops, last_frame, pending, procVars, handles>>
    /\ waited' = 0

\* TLS error, write error, read error or a response without the 101 status
HandshakeFail ==
    /\ pc = "handshaking"
    /\ Failed
    /\ UNCHANGED <<max_reconnects, state, result, events, attempts, frames, ops, last_frame, pending, procVars>>
    /\ waited' = 0

\* send_subscription(): write_frame returns Ok, SubscriptionSent is handed to
\* send_event, and handle_message_stream starts
SubscribeOk ==
    /\ pc = "subscribing"
    /\ events' = Append(events, Ev("SubscriptionSent"))
    /\ pc' = "listening"
    /\ failures' = 0
    /\ UNCHANGED <<max_reconnects, state, result, attempts, frames, ops, last_frame, pending, procVars, handles>>
    /\ waited' = 0

\* mutant: the write error is logged and the receive loop is entered
SubscribeFail_Ignored ==
    /\ pc = "subscribing"
    /\ pc' = "listening"
    /\ UNCHANGED <<max_reconnects, state, result, events, attempts, frames, failures, ops,
                   last_frame, pending, procVars, handles>>
    /\ waited' = 0

\* send_subscription(): write_frame fails
SubscribeFail ==
    /\ pc = "subscribing"
    /\ Failed
    /\ UNCHANGED <<max_reconnects, state, result, events, attempts, frames, ops, last_frame, pending, procVars>>
    /\ waited' = 0

\* handle_message_stream: read_frame returns a Text frame; handle_frame hands
\* MessageReceived to send_event
ReadText ==
    /\ pc = "listening"
    /\ frames < MaxFrames
    /\ \E p \in Payloads(MaxTrades - state.trade_count) :
          last_frame' = Frame("Text", p)
    /\ events' = Append(events, Ev("MessageReceived"))
    /\ frames' = frames + 1
    /\ pc' = "handle_frame"
    /\ UNCHANGED <<max_reconnects, state, result, attempts, failures, ops, pending, procVars,
                   handles>>
    /\ waited' = 0

\* handle_frame goes on after the send: record_message, from_str, and the
\* match of handle_websocket_message; then the trade loop, or back to
\* handle_message_stream with the handler's result
HandleFrame ==
    /\ pc = "handle_frame"
    /\ LET out == handle_text_frame(state, events, last_frame.payload, Now)
       IN  /\ state' = out.state
           /\ events' = out.events
           /\ pending' = out.pending
           /\ IF out.pending # <<>>
              THEN /\ pc' = "handle_trades"
                   /\ UNCHANGED <<failures, handles, last_frame>>
              ELSE /\ last_frame' = NoFrame
                   /\ IF stream_continues(from_str(last_frame.payload))
                      THEN /\ pc' = "listening"
                           /\ UNCHANGED <<failures, handles>>
                      ELSE Failed
    /\ UNCHANGED <<max_reconnects, result, attempts, frames, ops, procVars>>
    /\ waited' = 0

\* one turn of the trade loop of the arm the message went to
HandleTrade ==
    /\ pc = "handle_trades"
    /\ LET out == IF from_str(last_frame.payload) = "DirectTrades"
                  THEN handle_direct_trades(state, events, pending)
                  ELSE handle_trade_data(state, events, pending)
       IN  /\ state' = out.state
           /\ events' = out.events
           /\ pending' = out.pending
           /\ pc' = IF out.pending = <<>> THEN "listening" ELSE "handle_trades"
           /\ last_frame' = IF out.pending = <<>> THEN NoFrame ELSE last_frame
    /\ UNCHANGED <<max_reconnects, result, attempts, frames, failures, ops, procVars, handles>>
    /\ waited' = 0

\* read_frame returns a Binary, Ping, Pong or Continuation frame: it is
\* logged and the loop goes round
ReadOther ==
    /\ pc = "listening"
    /\ frames < MaxFrames
    /\ frames' = frames + 1
    /\ UNCHANGED <<max_reconnects, state, pc, result, events, attempts, failures, ops,
                   last_frame, pending, procVars, handles>>
    /\ waited' = 0

\* mutant: the Close arm sends Disconnected and the loop goes round
ReadClose_KeepsReading ==
    /\ pc = "listening"
    /\ frames < MaxFrames
    /\ events' = Append(events, Ev("Disconnected"))
    /\ frames' = frames + 1
    /\ last_frame' = Frame("Close", NoFrame.payload)
    /\ UNCHANGED <<max_reconnects, state, pc, result, attempts, failures, ops, pending,
                   procVars, handles>>
    /\ waited' = 0

\* read_frame returns a Close frame: Disconnected is handed to send_event
ReadClose ==
    /\ pc = "listening"
    /\ frames < MaxFrames
    /\ events' = Append(events, Ev("Disconnected"))
    /\ frames' = frames + 1
    /\ last_frame' = Frame("Close", NoFrame.payload)
    /\ pc' = "closing"
    /\ UNCHANGED <<max_reconnects, state, result, attempts, failures, ops, pending, procVars,
                   handles>>
    /\ waited' = 0

\* the Close arm after the send: return Err(ConnectionClosed)
CloseReturn ==
    /\ pc = "closing"
    /\ Failed
    /\ last_frame' = NoFrame
    /\ UNCHANGED <<max_reconnects, state, result, events, attempts, frames, ops, pending,
                   procVars>>
    /\ waited' = 0

\* read_frame fails: Err(WebSocketError)
ReadError ==
    /\ pc = "listening"
    /\ Failed
    /\ last_frame' = NoFrame
    /\ UNCHANGED <<max_reconnects, state, result, events, attempts, frames, ops, pending,
                   procVars>>
    /\ waited' = 0

\* handle_connection_error(): the first lock, increment_reconnect
HandleConnectionError ==
    /\ pc = "failed"
    /\ state' = increment_reconnect(state, Now)
    /\ pc' = "handle_connection_error"
    /\ UNCHANGED <<max_reconnects, result, events, attempts, frames, failures, ops, last_frame,
                   pending, procVars, handles>>
    /\ waited' = 0

\* handle_connection_error(): the second lock reads the counter; then give
\* up, or hand Reconnecting to send_event (the sleep follows the send)
ReconnectOrGiveUp ==
    /\ pc = "handle_connection_error"
    /\ IF MaxReconnectsReached(state.reconnect_count, max_reconnects)
       THEN /\ result' = "MaxReconnectsExceeded"
            /\ pc' = "returned"
            /\ UNCHANGED events
       ELSE /\ events' = Append(events, Reconnecting(state.reconnect_count))
            /\ pc' = "sleeping"
            /\ UNCHANGED result
    /\ UNCHANGED <<max_reconnects, state, attempts, frames, failures, ops, last_frame,
                   pending, procVars, handles>>
    /\ waited' = 0

\* mutant: a delay that never ends
ReconnectDelayElapsed_Never ==
    /\ pc = "sleeping"
    /\ UNCHANGED vars

\* sleep(delay) ends, handle_connection_error returns Ok, the loop goes round
ReconnectDelayElapsed ==
    /\ pc = "sleeping"
    /\ pc' = "connect_and_run"
    /\ UNCHANGED <<max_reconnects, state, result, events, attempts, frames, failures, ops,
                   last_frame, pending, procVars, handles>>
    /\ waited' = 0

Next ==
    \/ RunStart
    \/ ConnectAndRun
    \/ ConnectOk
    \/ ConnectFail
    \/ HandshakeOk
    \/ HandshakeFail
    \/ SubscribeOk
    \/ SubscribeFail
    \/ ReadText
    \/ HandleFrame
    \/ HandleTrade
    \/ ReadOther
    \/ ReadClose
    \/ CloseReturn
    \/ ReadError
    \/ HandleConnectionError
    \/ ReconnectOrGiveUp
    \/ ReconnectDelayElapsed

Spec == Init /\ [][Next]_vars

(***************************************************************************)
(* SpecState: the ClientState object under arbitrary callers.  Each action *)
(* is one method call; ops records the call and, for                       *)
(* validate_trade_sequence, its arguments and the bool it returned.        *)
(***************************************************************************)
Op(name) == [op |-> name, coin |-> "", tid |-> 0, ok |-> TRUE]

ValidateOp(coin, tid, ok) ==
    [op |-> "validate_trade_sequence", coin |-> coin, tid |-> tid, ok |-> ok]

CallResetConnection ==
    /\ Len(ops) < MaxOps
    /\ state' = reset_connection(state, FreshId, Now)
    /\ ops' = Append(ops, Op("reset_connection"))
    /\ UNCHANGED <<max_reconnects, clientVars>>

CallIncrementReconnect ==
    /\ Len(ops) < MaxOps
    /\ state' = increment_reconnect(state, Now)
    /\ ops' = Append(ops, Op("increment_reconnect"))
    /\ UNCHANGED <<max_reconnects, clientVars>>

CallValidateTradeSequence ==
    /\ Len(ops) < MaxOps
    /\ \E coin \in Coins, trade_id \in TradeIds :
          LET r == validate_trade_sequence(state, coin, trade_id)
          IN  /\ state' = r.state
              /\ ops' = Append(ops, ValidateOp(coin, trade_id, r.ok))
    /\ UNCHANGED <<max_reconnects, clientVars>>

CallRecordInvalidTimestamp ==
    /\ Len(ops) < MaxOps
    /\ state' = record_invalid_timestamp(state)
    /\ ops' = Append(ops, Op("record_invalid_timestamp"))
    /\ UNCHANGED <<max_reconnects, clientVars>>

CallRecordMessage ==
    /\ Len(ops) < MaxOps
    /\ state' = record_message(state, Now)
    /\ ops' = Append(ops, Op("record_message"))
    /\ UNCHANGED <<max_reconnects, clientVars>>

CallRecordTrade ==
    /\ Len(ops) < MaxOps
    /\ state' = record_trade(state)
    /\ ops' = Append(ops, Op("record_trade"))
    /\ UNCHANGED <<max_reconnects, clientVars>>

CallDisconnect ==
    /\ Len(ops) < MaxOps
    /\ state' = disconnect(state)
    /\ ops' = Append(ops, Op("disconnect"))
    /\ UNCHANGED <<max_reconnects, clientVars>>

InitState == Init /\ max_reconnects = 0

NextState ==
    \/ CallResetConnection
    \/ CallIncrementReconnect
    \/ CallValidateTradeSequence
    \/ CallRecordInvalidTimestamp
    \/ CallRecordMessage
    \/ CallRecordTrade
    \/ CallDisconnect

SpecState == InitState /\ [][NextState]_vars

(***************************************************************************)
(* SpecMain: main().  tokio::select! polls client.run(), ui_controller.run()*)
(* and the Ctrl+C future until the first of them completes and then drops  *)
(* the others.  client.run() hands its events to the bounded mpsc channel  *)
(* of create_event_channel: `events` is what send_event was called with,   *)
(* `sent` how many of those calls are over, so events[sent + 1] is the     *)
(* event the client is inside send_event with.                             *)
(***************************************************************************)
\* mutant: the send of an unbounded channel
send_Unbounded(q, event) ==
    [queue |-> Append(q, event), done |-> TRUE]

\* send_event calls event_sender.send(event) and maps the error of its
\* Result, without awaiting anything.  On the Sender of
\* mpsc::channel(EVENT_CHANNEL_CAPACITY) two calls hand the event over and
\* fit that line: send awaited, and try_send.  The source does not say
\* which is meant, so send_event is either.
\*
\* mpsc::Sender::send awaited: the value is queued when there is room, and
\* the call is pending otherwise
send(q, event) ==
    IF Len(q) < EVENT_CHANNEL_CAPACITY
    THEN [queue |-> Append(q, event), done |-> TRUE]
    ELSE [queue |-> q, done |-> FALSE]

\* mpsc::Sender::try_send: the value is queued when there is room; on a full
\* channel the call returns Err(Full) at once and the value is not queued
\* (every caller of send_event discards the error)
try_send(q, event) ==
    IF Len(q) < EVENT_CHANNEL_CAPACITY
    THEN [queue |-> Append(q, event), done |-> TRUE]
    ELSE [queue |-> q, done |-> TRUE]

\* mutant: a receiver that takes the newest queued value
recv_NewestFirst(q) ==
    [event |-> q[Len(q)], queue |-> SubSeq(q, 1, Len(q) - 1)]

\* mpsc::Receiver::recv: the oldest queued value
recv(q) ==
    [event |-> Head(q), queue |-> Tail(q)]

\* mutant: a delay that is slept through before the signal is looked at
Cancellable_NotDuringDelay(position) ==
    position # "sleeping"

\* select! drops the run() future when another arm completes, wherever
\* run() is suspended
Cancellable(position) ==
    TRUE

\* mutant: the client arm discards run()'s result
MainExit_SwallowsError(res) ==
    "exit_ok"

\* the client arm of select!: `if let Err(e) = result { return Err(e) }`,
\* else fall through to Ok(())
MainExit(res) ==
    IF res = "none" THEN "exit_ok" ELSE "exit_err"

\* mutant: the limit test without the Option (0 taken as a limit)
handle_event_ZeroIsALimit(count, max, event) ==
    IF event.type = "TradeReceived"
    THEN [trade_count |-> count + 1, continue |-> ~(count + 1 >= max)]
    ELSE [trade_count |-> count, continue |-> TRUE]

\* mutant: the limit tested before the trade is printed and counted
handle_event_StopsOneLate(count, max, event) ==
    IF event.type = "TradeReceived"
    THEN [trade_count |-> count + 1, continue |-> ~(max > 0 /\ count >= max)]
    ELSE [trade_count |-> count, continue |-> TRUE]

\* UIController::handle_event: the TradeReceived arm prints the trade
\* (print_trade counts it) and returns false once the count has reached
\* max_trades, which is None for 0; every other arm returns true
handle_event(count, max, event) ==
    IF event.type = "TradeReceived"
    THEN [trade_count |-> count + 1, continue |-> ~(max > 0 /\ count + 1 >= max)]
    ELSE [trade_count |-> count, continue |-> TRUE]

\* TradeFormatter::print_header: nothing when quiet, the table or csv header
\* for those formats, nothing for json and minimal
print_header(out, fmt, q) ==
    IF q \/ fmt \in {"json", "minimal"} THEN out ELSE Append(out, "header")

\* mutant: print_header called with every subscription acknowledgement
print_table_HeaderPerSubscription(printed, out, event, fmt, q) ==
    CASE event.type = "SubscriptionConfirmed" ->
            [header_printed |-> TRUE, output |-> print_header(out, fmt, q)]
      [] event.type = "TradeReceived" ->
            [header_printed |-> TRUE,
             output |-> Append(IF printed THEN out ELSE print_header(out, fmt, q), "row")]
      [] OTHER -> [header_printed |-> printed, output |-> out]

\* what handle_event prints of the trade table: the SubscriptionConfirmed and
\* the TradeReceived arm call print_header unless header_printed is set, and
\* set it; the TradeReceived arm then prints the trade's row (print_trade
\* prints one in every format, quiet or not)
print_table(printed, out, event, fmt, q) ==
    CASE event.type = "SubscriptionConfirmed" ->
            [header_printed |-> TRUE,
             output |-> IF printed THEN out ELSE print_header(out, fmt, q)]
      [] event.type = "TradeReceived" ->
            [header_printed |-> TRUE,
             output |-> Append(IF printed THEN out ELSE print_header(out, fmt, q), "row")]
      [] OTHER -> [header_printed |-> printed, output |-> out]

\* select! is still polling: no arm has completed
Selecting ==
    main = "select" /\ pc # "returned"

\* the positions where run() awaits the transport: TcpStream::connect, the
\* TLS and upgrade handshakes, write_frame of the subscription, read_frame
TransportWaits == {"connecting", "handshaking", "subscribing", "listening"}

\* a step of client.run(): only once the last send_event is over.  The runs
\* explored hand at most MaxLog events to send_event.
ClientStep ==
    /\ Selecting
    /\ sent = Len(events)
    /\ Next
    /\ Len(events') <= MaxLog

\* send_event is over for the oldest event not yet sent: the awaited send
\* has completed, or try_send has returned
SendEvent ==
    /\ Selecting
    /\ sent < Len(events)
    /\ \E r \in {send(queue, events[sent + 1]), try_send(queue, events[sent + 1])} :
           /\ r.done
           /\ queue' = r.queue
    /\ sent' = sent + 1
    /\ waited' = 0
    /\ UNCHANGED <<max_reconnects, state, pc, result, events, attempts, frames, failures,
                   ops, last_frame, pending, main, received, handles, max_trades, ui_trade_count, uiVars, uiConfig>>

\* UIController::run: recv() yields an event and handle_event takes it; when
\* handle_event returns false run() returns and its arm of select! completes
UiRecv ==
    /\ Selecting
    /\ queue # <<>>
    /\ LET r == recv(queue)
           h == handle_event(ui_trade_count, max_trades, r.event)
           t == print_table(header_printed, output, r.event, format, quiet)
       IN  /\ received' = Append(received, r.event)
           /\ queue' = r.queue
           /\ ui_trade_count' = h.trade_count
           /\ header_printed' = t.header_printed
           /\ output' = t.output
           /\ IF h.continue
              THEN UNCHANGED <<main, handles>>
              ELSE /\ main' = "ui_stopped"
                   /\ handles' = release(handles)
    /\ UNCHANGED <<max_reconnects, state, pc, result, events, attempts, frames, failures,
                   ops, last_frame, pending, sent, waited, max_trades, uiConfig>>

\* one period (websocket.timeout, health.check_interval: 30 s each by
\* default) passes while run() awaits the transport and nothing arrives
Tick ==
    /\ Selecting
    /\ sent = Len(events)
    /\ pc \in TransportWaits
    /\ waited < MaxWait
    /\ waited' = waited + 1
    /\ UNCHANGED <<max_reconnects, state, pc, result, events, attempts, frames, failures,
                   ops, last_frame, pending, procVars, handles>>

\* mutant: the signal handled as a connection error
Shutdown_RunsReconnectPolicy ==
    /\ Selecting
    /\ main' = "shutdown"
    /\ handles' = release(handles)
    /\ state' = increment_reconnect(state, Now)
    /\ UNCHANGED <<max_reconnects, pc, result, events, attempts, frames, failures,
                   ops, last_frame, pending, sent, queue, received, waited, max_trades, ui_trade_count, uiVars, uiConfig>>

\* Ctrl+C: the shutdown arm completes, run() and ui_controller.run() are dropped
Shutdown ==
    /\ Selecting
    /\ Cancellable(pc)
    /\ main' = "shutdown"
    /\ handles' = release(handles)
    /\ UNCHANGED <<max_reconnects, state, pc, result, events, attempts, frames, failures,
                   ops, last_frame, pending, sent, queue, received, waited, max_trades, ui_trade_count, uiVars, uiConfig>>

\* run() has returned: the client arm of select! decides main's result
ClientReturned ==
    /\ main = "select"
    /\ pc = "returned"
    /\ main' = MainExit(result)
    /\ UNCHANGED <<max_reconnects, state, pc, result, events, attempts, frames, failures,
                   ops, last_frame, pending, sent, queue, received, waited, handles, max_trades,
                   ui_trade_count, uiVars, uiConfig>>

\* main(): Config::from_args(&args)? fails (the --url does not parse)
LoadConfigFail ==
    /\ main = "start"
    /\ main' = "exit_err"
    /\ UNCHANGED <<max_reconnects, state, pc, result, events, attempts, frames, failures,
                   ops, last_frame, pending, sent, queue, received, waited, handles, max_trades,
                   ui_trade_count, uiVars, uiConfig>>

\* main(): Config::from_args returns the Config
LoadConfig ==
    /\ main = "start"
    /\ main' = "configured"
    /\ UNCHANGED <<max_reconnects, state, pc, result, events, attempts, frames, failures,
                   ops, last_frame, pending, sent, queue, received, waited, handles, max_trades,
                   ui_trade_count, uiVars, uiConfig>>

\* main(): --metrics is set and setup_metrics(port).await? fails
SetupMetricsFail ==
    /\ main = "configured"
    /\ main' = "exit_err"
    /\ UNCHANGED <<max_reconnects, state, pc, result, events, attempts, frames, failures,
                   ops, last_frame, pending, sent, queue, received, waited, handles, max_trades,
                   ui_trade_count, uiVars, uiConfig>>

\* main(): metrics are off or installed; the channel, the ClientState, the
\* UIController and the client are built and select! starts polling
MainSetup ==
    /\ main = "configured"
    /\ main' = "select"
    /\ UNCHANGED <<max_reconnects, state, pc, result, events, attempts, frames, failures,
                   ops, last_frame, pending, sent, queue, received, waited, handles, max_trades,
                   ui_trade_count, uiVars, uiConfig>>

\* main(): the arguments are parsed: any --max-reconnects value of the
\* explored range, any --format, --quiet on or off.  main hands
\* UIController::new the receiver, the format and five flags where ui.rs
\* takes the receiver, the format and a UIOptions.  The UIOptions that call
\* stands for either carries args.max_trades (any --max-trades value of the
\* explored range) or carries no limit (0); the source does not say which.
InitMain ==
    /\ ClientInit
    /\ main = "start"
    /\ max_trades \in 0..MaxTrades
    /\ format \in Formats
    /\ quiet \in BOOLEAN

NextMain ==
    \/ LoadConfigFail
    \/ LoadConfig
    \/ SetupMetricsFail
    \/ MainSetup
    \/ ClientStep
    \/ SendEvent
    \/ UiRecv
    \/ Tick
    \/ Shutdown
    \/ ClientReturned

SpecMain == InitMain /\ [][NextMain]_vars

\* the steps of run() that wait for nothing but the runtime: a timer that
\* fires, an uncontended lock
ClientOwnStep ==
    /\ Selecting
    /\ sent = Len(events)
    /\ \/ RunStart
       \/ ConnectAndRun
       \/ HandleFrame
       \/ HandleTrade
       \/ CloseReturn
       \/ HandleConnectionError
       \/ ReconnectOrGiveUp
       \/ ReconnectDelayElapsed
    /\ Len(events') <= MaxLog

\* SpecMain under a runtime that keeps polling the three arms: the client's
\* own steps, a send_event that can complete and a recv with an event
\* queued are not postponed for ever.  Nothing is assumed of the transport.
FairMain ==
    /\ InitMain
    /\ [][NextMain]_vars
    /\ WF_vars(ClientOwnStep)
    /\ WF_vars(SendEvent)
    /\ WF_vars(UiRecv)

(***************************************************************************)
(* SpecLib: client.run() called by a program that has dropped the          *)
(* EventReceiver (the crate exports the client through lib.rs).  Every     *)
(* event_sender.send returns Err(SendError) and the event is lost.         *)
(***************************************************************************)
\* mutant: connect_and_run returning the error of its Connecting send with `?`
discards_send_error_ConnectingPropagates(type) ==
    type # "Connecting"

\* every call of send_event is `let _ = self.send_event(..).await`
discards_send_error(type) ==
    TRUE

\* send_event with the receiver gone: the send fails, the caller goes on
SendEventNoReceiver ==
    /\ Selecting
    /\ sent < Len(events)
    /\ sent' = sent + 1
    /\ IF discards_send_error(events[sent + 1].type)
       THEN UNCHANGED <<pc, failures, handles>>
       ELSE Failed
    /\ waited' = 0
    /\ UNCHANGED <<max_reconnects, state, result, events, attempts, frames, ops, last_frame, pending,
                   main, queue, received, max_trades, ui_trade_count, uiVars, uiConfig>>

InitLib == Init

NextLib ==
    \/ ClientStep
    \/ SendEventNoReceiver

SpecLib == InitLib /\ [][NextLib]_vars

(***************************************************************************)
(* SpecUi: UIController::run reading a channel that any holder of the      *)
(* EventSender writes to: lifecycle events, subscription acknowledgements  *)
(* and trades in any order.                                                *)
(***************************************************************************)
UiEvents ==
    {Ev("Connecting"), SubscriptionConfirmed("BTC")} \cup {TradeReceived(t) : t \in Trades}

\* a sender hands one more event to send_event
ProduceAny ==
    /\ Selecting
    /\ sent = Len(events)
    /\ Len(events) < MaxUiEvents
    /\ \E e \in UiEvents : events' = Append(events, e)
    /\ UNCHANGED <<max_reconnects, state, pc, result, attempts, frames, failures, ops,
                   last_frame, pending, procVars, waited, handles>>

\* UIController::new with any options
InitUi ==
    /\ ClientInit
    /\ main = "select"
    /\ max_trades \in 0..MaxTrades
    /\ format \in Formats
    /\ quiet \in BOOLEAN

NextUi ==
    \/ ProduceAny
    \/ SendEvent
    \/ UiRecv

SpecUi == InitUi /\ [][NextUi]_vars

(***************************************************************************)
(* Reconnect policy (run, connect_and_run, handle_connection_error).       *)
(***************************************************************************)
\* the ClientEvents of one type sent so far
CountEvents(type) == Cardinality({i \in 1..Len(events) : events[i].type = type})

\* C1: with max_reconnects = N > 0 and no session reaching the receive loop in
\* between, a retry is scheduled only after the first N consecutive failed
\* attempts, and run() returns MaxReconnectsExceeded exactly on the (N+1)-th.
C1_GiveUpOnAttemptNPlusOne ==
    max_reconnects > 0 =>
        /\ (pc = "sleeping" => failures <= max_reconnects)
        /\ (pc = "returned" =>
                /\ result = "MaxReconnectsExceeded"
                /\ failures = max_reconnects + 1)

\* C2: reconnection is bounded: with max_reconnects = N > 0, once more than N
\* consecutive attempts have failed the client is giving up or has returned;
\* it never schedules or starts yet another attempt.
C2_RetriesBounded ==
    (max_reconnects > 0 /\ failures > max_reconnects) =>
        pc \in {"failed", "handle_connection_error", "returned"}

\* C3: the reconnect counter is reset only by a session that reached the
\* receive loop: once a failure has been handled, the counter equals the number
\* of consecutive failed attempts since the last such session, and that number
\* is the attempt carried by the last Reconnecting event.
C3_CounterCountsConsecutiveFailures ==
    pc # "failed" =>
        /\ state.reconnect_count = failures
        /\ (pc = "sleeping" => events[Len(events)] = Reconnecting(failures))

\* C4: the reconnect counter is 0 in every state where the session is in the
\* receive loop, and every Failed transition (the step by which run() handles an
\* Err of connect_and_run) increments it by exactly 1; nothing else raises it.
C4_ZeroWhenListeningIncrementOnFailed ==
    /\ [](pc = "listening" => state.reconnect_count = 0)
    /\ [][ /\ (pc = "failed" /\ pc' # "failed" =>
                  state'.reconnect_count = state.reconnect_count + 1)
           /\ (state'.reconnect_count > state.reconnect_count => pc = "failed")
         ]_vars

\* C4 witness: a session reached the receive loop, then failed, and the failure
\* was handled: the counter stands at 1.
C4_Witness ==
    /\ pc = "sleeping"
    /\ state.reconnect_count = 1
    /\ attempts >= 2
    /\ events[Len(events) - 1].type = "Disconnected"

\* C5: with max_reconnects = 0 run() never returns MaxReconnectsExceeded: every
\* handled failure sent a Reconnecting event and went on to the delay and the
\* next attempt, however many attempts failed.
C5_UnlimitedNeverGivesUp ==
    max_reconnects = 0 =>
        /\ result # "MaxReconnectsExceeded"
        /\ pc # "returned"
        /\ (pc \in {"sleeping", "connect_and_run"} =>
                CountEvents("Reconnecting") = attempts)
        /\ (pc \in {"connecting", "handshaking", "subscribing", "listening", "handle_frame",
                    "handle_trades", "closing", "failed", "handle_connection_error"} =>
                CountEvents("Reconnecting") = attempts - 1)
        /\ (pc = "sleeping" => events[Len(events)].type = "Reconnecting")

\* C5 witness: unlimited reconnects, and the third failed attempt in a row has
\* just been answered by a Reconnecting event.
C5_Witness ==
    /\ max_reconnects = 0
    /\ failures >= 3
    /\ pc = "sleeping"
    /\ CountEvents("Reconnecting") = 3

(***************************************************************************)
(* Receive pipeline.                                                       *)
(***************************************************************************)
\* positions of the TradeReceived events of one coin
TradeEventsOf(coin) ==
    {i \in 1..Len(events) : events[i].type = "TradeReceived" /\ events[i].coin = coin}

\* C9: a trade that repeats the identifier of the previous trade of the same
\* symbol produces no TradeReceived event: two TradeReceived events of one
\* symbol with no other of that symbol between them never carry the same
\* identifier, and the duplicate-trades counter counts the trades left out.
C9_DuplicateTradeNotEmitted ==
    /\ \A c \in Coins : \A i, j \in TradeEventsOf(c) :
          (i < j /\ ~ \E k \in TradeEventsOf(c) : i < k /\ k < j)
              => events[i].tid # events[j].tid
    /\ state.trade_count = CountEvents("TradeReceived") + state.duplicate_trades

(***************************************************************************)
(* Integrity tracker (ClientState::validate_trade_sequence), over the call *)
(* history ops of SpecState.                                               *)
(***************************************************************************)
IsValidate(i) == ops[i].op = "validate_trade_sequence"

IsLifecycle(i) == ops[i].op \in {"reset_connection", "increment_reconnect", "disconnect"}

\* the earlier submissions for the symbol of submission j
EarlierOf(j) == {i \in 1..(j - 1) : IsValidate(i) /\ ops[i].coin = ops[j].coin}

HasPrev(j) == EarlierOf(j) # {}

\* the submission for the same symbol that directly precedes submission j
Prev(j) == CHOOSE i \in EarlierOf(j) : \A k \in EarlierOf(j) : k <= i

\* the earlier accepted submissions for the symbol of submission j
AcceptedBefore(j) == {i \in EarlierOf(j) : ops[i].ok}

\* the most recently accepted submission for the symbol of submission j
LastAccepted(j) == CHOOSE i \in AcceptedBefore(j) : \A k \in AcceptedBefore(j) : k <= i

\* submission j repeats the identifier of the directly preceding submission
\* for its symbol
IsRepeat(j) == IsValidate(j) /\ HasPrev(j) /\ ops[Prev(j)].tid = ops[j].tid

\* C6: for any symbol and any identifier, zero and negative ones included, the
\* same identifier submitted twice in direct succession for the symbol is
\* accepted the first time and rejected the second time.
C6_RepeatRejected ==
    \A j \in 1..Len(ops) :
        /\ (IsValidate(j) /\ ~HasPrev(j)) => ops[j].ok
        /\ IsRepeat(j) => ~ops[j].ok

\* C7: validate_trade_sequence rejects only an exact repeat of the identifier
\* most recently accepted for the same symbol: a submission whose identifier
\* differs from it (larger or smaller), or whose symbol has accepted nothing
\* yet, is accepted, whatever the other symbols have recorded.
C7_RejectsOnlyExactRepeat ==
    \A j \in 1..Len(ops) :
        (IsValidate(j) /\ ~ops[j].ok) =>
            /\ AcceptedBefore(j) # {}
            /\ ops[LastAccepted(j)].tid = ops[j].tid

\* C7 witness: a symbol accepted an identifier, another symbol recorded the
\* lower identifier, and the first symbol then accepted that lower identifier.
C7_Witness ==
    \E i, k, j \in 1..Len(ops) :
        /\ i < k /\ k < j
        /\ IsValidate(i) /\ IsValidate(k) /\ IsValidate(j)
        /\ ops[i].coin = ops[j].coin /\ ops[k].coin # ops[j].coin
        /\ ops[k].tid = ops[j].tid
        /\ 0 < ops[j].tid /\ ops[j].tid < ops[i].tid
        /\ ops[i].ok /\ ops[k].ok /\ ops[j].ok

\* C8: only the immediately previous identifier of the symbol is compared: when
\* three successive submissions for one symbol carry A, B, A with A # B, the
\* second and the third are accepted, and so is the first unless it repeats
\* the submission before it.
C8_NoFullHistoryDedup ==
    \A i, j, k \in 1..Len(ops) :
        ( /\ IsValidate(i) /\ IsValidate(j) /\ IsValidate(k)
          /\ HasPrev(j) /\ Prev(j) = i
          /\ HasPrev(k) /\ Prev(k) = j
          /\ ops[i].tid = ops[k].tid
          /\ ops[i].tid # ops[j].tid )
        => /\ ops[j].ok
           /\ ops[k].ok
           /\ (~IsRepeat(i) => ops[i].ok)

\* C8 witness: positive identifiers A, B, A submitted for one symbol, with A
\* recorded in the state when it comes back, and all three accepted.
C8_Witness ==
    /\ Len(ops) >= 3
    /\ \A i \in 1..3 : IsValidate(i) /\ ops[i].ok /\ ops[i].coin = ops[1].coin
    /\ ops[1].tid = ops[3].tid
    /\ ops[1].tid # ops[2].tid
    /\ ops[1].tid > 0 /\ ops[2].tid > 0
    /\ state.last_trade_ids[ops[1].coin] = ops[1].tid

\* the integrity data of a ClientState
Integrity(s) ==
    <<s.last_trade_ids, s.duplicate_trades, s.invalid_timestamps,
      s.total_messages_received>>

\* only connection-lifecycle calls lie between calls i and j
OnlyLifecycleBetween(i, j) ==
    /\ i + 1 < j
    /\ \A m \in (i + 1)..(j - 1) : IsLifecycle(m)

\* C10: reset_connection, increment_reconnect and disconnect leave the
\* last-seen identifier map and the duplicate, invalid-timestamp and
\* total-message counters unchanged; so a repeat of a symbol's last identifier
\* submitted after any such calls gets the verdict the same repeat gets in
\* direct succession.
C10_LifecycleKeepsIntegrity ==
    /\ [][ (Len(ops') = Len(ops) + 1 /\ IsLifecycle(Len(ops))')
              => Integrity(state') = Integrity(state) ]_vars
    /\ [](\A i, j \in 1..Len(ops) :
            ( /\ IsRepeat(i) /\ Prev(i) = i - 1
              /\ IsRepeat(j) /\ OnlyLifecycleBetween(Prev(j), j)
              /\ ops[i].coin = ops[j].coin
              /\ ops[i].tid = ops[j].tid )
            => ops[i].ok = ops[j].ok)

\* C10 witness: an identifier was accepted, the connection was torn down and
\* reset (increment_reconnect and reset_connection, nothing else), and the
\* repeat of the identifier was rejected and counted.
C10_Witness ==
    \E i, j \in 1..Len(ops) :
        /\ IsValidate(i) /\ ops[i].ok /\ ops[i].tid > 0
        /\ IsRepeat(j) /\ Prev(j) = i
        /\ OnlyLifecycleBetween(i, j)
        /\ {"reset_connection", "increment_reconnect"} \subseteq {ops[m].op : m \in i..j}
        /\ ~ops[j].ok
        /\ state.duplicate_trades = 1


(***************************************************************************)
(* Event bus (events.rs, send_event, UIController::run).                   *)
(***************************************************************************)
\* s is t with some of its elements left out: the elements of s are found in
\* t in the same order, each at a position of its own
RECURSIVE IsSubsequence(_, _)
IsSubsequence(s, t) ==
    IF s = <<>> THEN TRUE
    ELSE IF t = <<>> THEN FALSE
    ELSE IF Head(s) = Head(t) THEN IsSubsequence(Tail(s), Tail(t))
    ELSE IsSubsequence(s, Tail(t))

\* C11: the single consumer receives the events in the order the client
\* produced them and each at most once: what UIController::run has received,
\* followed by what is queued, is an order-preserving, duplicate-free
\* subsequence of the events whose send_event is over.
C11_ReceivedInProductionOrder ==
    IsSubsequence(received \o queue, SubSeq(events, 1, sent))

\* two different events received in order, after an earlier one was lost
C11_Witness ==
    /\ Len(received) >= 3
    /\ Len(events) >= 4
    /\ received[1] = events[1]
    /\ received[2] = events[2]
    /\ received[3] = events[4]
    /\ events[3] # events[4]
    /\ queue # <<>>

\* the client is inside send_event and the channel is full
Stalled ==
    /\ Selecting
    /\ sent < Len(events)
    /\ Len(queue) = EVENT_CHANNEL_CAPACITY

\* C12: on a full channel send_event neither drops the event nor returns:
\* every event whose send is over is received or queued, in order; while the
\* producer is stalled the client makes no step and the send is not over; and
\* as soon as the channel has room the send of the stalled event can complete.
C12_FullBusStallsProducer ==
    /\ [](received \o queue = SubSeq(events, 1, sent))
    /\ []((Selecting /\ sent < Len(events) /\ Len(queue) < EVENT_CHANNEL_CAPACITY)
            => ENABLED SendEvent)
    /\ [][Stalled => /\ sent' = sent
                     /\ events' = events
                     /\ pc' = pc
                     /\ result' = result
                     /\ state' = state]_vars
    /\ [][(sent < Len(events) /\ sent' = sent + 1)
            => /\ Len(queue) < EVENT_CHANNEL_CAPACITY
               /\ queue' = Append(queue, events[sent + 1])]_vars

\* C13: the events queued and not yet received never outnumber the capacity.
C13_QueueWithinCapacity ==
    Len(queue) <= EVENT_CHANNEL_CAPACITY

C13_Witness ==
    /\ Len(queue) = EVENT_CHANNEL_CAPACITY
    /\ sent = Len(events)
    /\ main = "select"

(***************************************************************************)
(* Waits of the client (connect_and_run, handle_message_stream).           *)
(***************************************************************************)
\* C14: a session in the receive loop to which no frame has arrived for more
\* than 3 check intervals is no longer in the receive loop.
C14_SilentSessionFails ==
    pc = "listening" => waited <= 3

\* C15: an attempt whose connect has been pending for more than the timeout
\* is no longer connecting.
C15_ConnectTimesOut ==
    pc = "connecting" => waited <= 1

(***************************************************************************)
(* Message classification and handling (handle_frame and below).           *)
(***************************************************************************)
\* the step read a Text frame
ReadsText ==
    /\ frames' = frames + 1
    /\ last_frame'.opcode = "Text"

\* the step read a frame that is neither Text nor Close: Binary, Ping, Pong
\* or Continuation
ReadsOther ==
    /\ frames' = frames + 1
    /\ last_frame'.opcode = "None"

\* the positions of handle_message_stream: awaiting a frame, inside
\* handle_frame, inside a trade loop, inside the Close arm
ReceiveLoop == {"listening", "handle_frame", "handle_trades", "closing"}

\* C16: a text payload that fails every classifier path leaves the session in
\* the receive loop: reading it sends MessageReceived and nothing else, and
\* the handler's step after that goes back to awaiting the next frame with
\* the reconnect counter, the connected flag, run()'s result and the event
\* log unchanged (so no Reconnecting and no Disconnected).
C16_UnparsedPayloadKeepsSession ==
    /\ [][(ReadsText /\ from_str(last_frame'.payload) = "Err")
            => /\ pc = "listening"
               /\ pc' = "handle_frame"
               /\ state' = state
               /\ result' = result
               /\ failures' = failures
               /\ events' = Append(events, Ev("MessageReceived"))]_vars
    /\ [][(pc = "handle_frame" /\ pc' # pc /\ from_str(last_frame.payload) = "Err")
            => /\ pc' = "listening"
               /\ state'.reconnect_count = state.reconnect_count
               /\ state'.is_connected = state.is_connected
               /\ result' = result
               /\ failures' = failures
               /\ events' = events]_vars

C16_Witness ==
    /\ pc = "handle_frame"
    /\ last_frame.opcode = "Text"
    /\ from_str(last_frame.payload) = "Err"
    /\ state.is_connected
    /\ state.reconnect_count = 0
    /\ events[Len(events)].type = "MessageReceived"

\* the shapes the classifier knows
KnownShape(p) ==
    \/ p.shape = "envelope" /\ p.data \in EnvelopeData \ {"unknown"}
    \/ p.shape = "array" /\ p.data \in {"trades", "candles"}
    \/ p.shape = "channel_only"

\* C17: a text payload of none of the known shapes parses to no variant
\* (handle_frame reports InvalidMessage).
C17_UnknownShapeIsUnparsed ==
    (last_frame.opcode = "Text" /\ ~KnownShape(last_frame.payload))
        => from_str(last_frame.payload) = "Err"

\* the shapes a trade list arrives in
TradeShapes == {"envelope", "positional", "array"}

\* the same trade list in another shape
Twin(p, shape) == Doc(shape, "trades", "", p.trades)

\* C18: a text frame carrying a trade list, bare or enveloped, is handled
\* step by step exactly as the same list in any other shape would be: the
\* dispatch enters the loop with the same trades, and each turn of either
\* loop leaves the same event log and the same ClientState.
C18_TradeShapesEquivalent ==
    /\ [][(pc = "handle_frame" /\ pc' # pc /\ last_frame.payload.data = "trades"
             /\ last_frame.payload.shape \in TradeShapes)
            => \A sh \in TradeShapes :
                 LET twin == handle_text_frame(state, events, Twin(last_frame.payload, sh), Now)
                 IN  /\ events' = twin.events
                     /\ state' = twin.state
                     /\ pending' = twin.pending]_vars
    /\ [][(pc = "handle_trades" /\ events' # events)
            => LET enveloped == handle_trade_data(state, events, pending)
                   bare == handle_direct_trades(state, events, pending)
               IN  /\ enveloped = bare
                   /\ events' = bare.events
                   /\ state' = bare.state
                   /\ pending' = bare.pending]_vars

C18_Witness ==
    /\ pc = "handle_trades"
    /\ last_frame.opcode = "Text"
    /\ last_frame.payload.shape = "array"
    /\ Len(last_frame.payload.trades) = 2
    /\ state.trade_count = 1
    /\ events[Len(events)] = TradeReceived(last_frame.payload.trades[1])

C20_ExhaustedReconnectsAreFatal ==
    /\ [](result = "MaxReconnectsExceeded" => pc = "returned" /\ main \in {"select", "exit_err"})
    /\ [](main = "exit_err" => result = "MaxReconnectsExceeded" \/ (pc = "run" /\ events = <<>>))
    /\ [][result = "MaxReconnectsExceeded"
            => /\ UNCHANGED <<pc, attempts, events, state>>
               /\ main = "select" => main' = "exit_err"]_vars

C20_Witness ==
    /\ main = "exit_err"
    /\ result = "MaxReconnectsExceeded"
    /\ pc = "returned"
    /\ max_reconnects > 0
    /\ state.reconnect_count >= max_reconnects

(***************************************************************************)
(* No consumer, and the presentation's trade limit.                        *)
(***************************************************************************)
\* C21: with the receiver dropped every send fails and nothing else happens:
\* the step in which a send fails moves neither the client's position nor
\* its state, result or failure count, nothing is ever queued or received,
\* and an attempt fails only at one of its transport steps or on the return
\* of the Close arm, no send pending.
C21_SendFailureIsNotFatal ==
    /\ [](queue = <<>> /\ received = <<>>)
    /\ [][sent' = sent + 1
            => UNCHANGED <<pc, state, result, failures, events, attempts, frames>>]_vars
    /\ [][pc' = "failed" /\ pc # "failed"
            => /\ sent = Len(events)
               /\ pc \in {"connecting", "handshaking", "subscribing", "listening", "closing"}]_vars

C21_Witness ==
    /\ main = "select"
    /\ pc = "listening"
    /\ state.trade_count = 1
    /\ sent = Len(events)
    /\ sent >= 6
    /\ queue = <<>>

\* the TradeReceived events among the first n received
TradesReceived == Cardinality({i \in 1..Len(received) : received[i].type = "TradeReceived"})

MessageLevel == {"MessageReceived", "SubscriptionConfirmed", "TradeReceived"}

\* the step sent exactly the one event e
SendsOnly(e) == events' = Append(events, e)

\* the Connecting event of the attempt events[i] was sent in (0: before any)
AttemptStart(i) ==
    CHOOSE j \in 0..i :
        /\ j = 0 \/ events[j].type = "Connecting"
        /\ \A k \in (j + 1)..i : events[k].type # "Connecting"

\* C23: in the log of every attempt Connected comes right after Connecting,
\* SubscriptionSent right after Connected, and message-level events only
\* after those; Connected is sent by the step that accepts the upgrade
\* response and SubscriptionSent by the step that wrote the subscription.
C23_LifecycleEventOrder ==
    /\ [](\A i \in 1..Len(events) :
            LET a == AttemptStart(i)
            IN  /\ events[i].type = "Connected" => a > 0 /\ i = a + 1
                /\ events[i].type = "SubscriptionSent"
                     => a > 0 /\ i = a + 2 /\ events[a + 1].type = "Connected"
                /\ events[i].type \in MessageLevel
                     => /\ a > 0 /\ i > a + 2
                        /\ events[a + 1].type = "Connected"
                        /\ events[a + 2].type = "SubscriptionSent")
    /\ [][SendsOnly(Ev("Connected")) => pc = "handshaking" /\ pc' = "subscribing"]_vars
    /\ [][SendsOnly(Ev("SubscriptionSent")) => pc = "subscribing" /\ pc' = "listening"]_vars

C23_Witness ==
    /\ Len(events) >= 9
    /\ events[Len(events)].type = "TradeReceived"
    /\ AttemptStart(Len(events)) > 2
    /\ attempts = 2

\* C24: the receive loop is entered only by the step that wrote the
\* subscription, which no attempt takes twice and which reads no frame; an
\* attempt in its handshake or its subscription write either goes on or
\* fails, and when it fails it has sent nothing and read nothing; frames are
\* read in the receive loop only.
C24_SubscribeOncePerSession ==
    /\ [][(pc' \in ReceiveLoop /\ pc \notin ReceiveLoop)
            => /\ pc = "subscribing"
               /\ pc' = "listening"
               /\ SendsOnly(Ev("SubscriptionSent"))
               /\ frames' = frames
               /\ attempts' = attempts]_vars
    /\ [][(pc = "handshaking" /\ pc' # pc) => pc' \in {"subscribing", "failed"}]_vars
    /\ [][(pc = "subscribing" /\ pc' # pc) => pc' \in {"listening", "failed"}]_vars
    /\ [][(pc \in {"connecting", "handshaking", "subscribing"} /\ pc' = "failed")
            => events' = events /\ frames' = frames]_vars
    /\ [][frames' # frames => pc = "listening"]_vars
    /\ [](\A i, j \in 1..Len(events) :
            (/\ i < j
             /\ events[i].type = "SubscriptionSent"
             /\ events[j].type = "SubscriptionSent") => AttemptStart(i) < AttemptStart(j))

C24_Witness ==
    /\ pc = "listening"
    /\ attempts = 3
    /\ CountEvents("SubscriptionSent") = 2
    /\ CountEvents("Connecting") = 3
    /\ CountEvents("Connected") = 2

\* C25: the receive loop is left only into the failed position; the step
\* that reads the close frame hands Disconnected to send_event and the next
\* step leaves the loop; from the failed position the next step is
\* handle_connection_error's increment, which adds 1 to the reconnect counter,
\* and the one after it consults the policy (delay or give up); neither reads
\* a frame; run() returns no success value.
C25_CloseOrReadErrorFails ==
    /\ [][(pc \in ReceiveLoop /\ pc' \notin ReceiveLoop)
            => pc' = "failed" /\ result' = result]_vars
    /\ [][SendsOnly(Ev("Disconnected")) => pc = "listening" /\ pc' = "closing"]_vars
    /\ [][(pc = "closing" /\ pc' # pc)
            => pc' = "failed" /\ events' = events /\ frames' = frames]_vars
    /\ [][(pc = "failed" /\ pc' # pc)
            => /\ state'.reconnect_count = state.reconnect_count + 1
               /\ pc' = "handle_connection_error"
               /\ frames' = frames]_vars
    /\ [][(pc = "handle_connection_error" /\ pc' # pc)
            => /\ state' = state
               /\ pc' \in {"sleeping", "returned"}]_vars
    /\ [][(pc \in {"closing", "failed", "handle_connection_error", "sleeping", "returned"})
            => frames' = frames]_vars
    /\ [](result \in {"none", "MaxReconnectsExceeded"})

C25_Witness ==
    /\ pc = "sleeping"
    /\ events[Len(events) - 1].type = "Disconnected"
    /\ events[Len(events)].type = "Reconnecting"
    /\ state.reconnect_count = 1
    /\ frames = 1

\* C26: never more than one transport handle is alive, one is alive exactly
\* from the connect to the return of connect_and_run, an attempt starts with
\* none alive, and a frame is read only on the handle of the attempt under way.
C26_OneSessionAtATime ==
    /\ [](handles \in {0, 1})
    /\ [](handles = 1 <=> pc \in {"handshaking", "subscribing"} \cup ReceiveLoop)
    /\ [][attempts' # attempts => handles = 0 /\ handles' = 0]_vars
    /\ [][frames' # frames => handles = 1 /\ attempts' = attempts]_vars

C26_Witness ==
    /\ attempts = 2
    /\ pc = "listening"
    /\ handles = 1
    /\ frames = 1
    /\ CountEvents("SubscriptionSent") = 2

\* C27: the step that takes the shutdown signal, and every step after it,
\* leaves the reconnect counter, the event log and run()'s result alone, and
\* a run ended by the signal has not signalled MaxReconnectsExceeded.
C27_ShutdownSkipsReconnectPolicy ==
    /\ [][main' = "shutdown"
            => /\ state'.reconnect_count = state.reconnect_count
               /\ events' = events
               /\ result' = result]_vars
    /\ [](main = "shutdown" => result = "none")

C27_Witness ==
    /\ main = "shutdown"
    /\ pc = "listening"
    /\ state.reconnect_count = 0
    /\ state.is_connected
    /\ frames = 1

\* a retry is permitted and the explored run has room for it
RetryPermitted ==
    /\ pc = "failed"
    /\ main = "select"
    /\ ~MaxReconnectsReached(state.reconnect_count + 1, max_reconnects)
    /\ attempts < MaxAttempts
    /\ Len(events) + 2 <= MaxLog

\* C28: from a failed attempt the policy lets retry, the next attempt's
\* connect is eventually under way, unless the select has ended meanwhile.
C28_RetryEventuallyStarts ==
    RetryPermitted ~> (pc = "connecting" \/ main # "select")

C28_Witness ==
    /\ pc = "connecting"
    /\ attempts = 2
    /\ main = "select"
    /\ events[Len(events)].type = "Connecting"
    /\ events[Len(events) - 1].type = "Reconnecting"
    /\ Len(received) = Len(events)

\* C29: every frame read that keeps the session in the receive loop sets
\* last_message_time to the time of the read.
C29_EveryFrameResetsTimestamp ==
    [][(frames' = frames + 1 /\ pc' = "listening")
         => state'.last_message_time = Now]_vars

\* C30: is_connected holds only from the accepted upgrade to the failure
\* that ends the session (handle_connection_error has not run yet in "failed").
C30_ConnectedOnlyInSession ==
    state.is_connected => pc \in {"subscribing", "failed"} \cup ReceiveLoop

(***************************************************************************)
(* Frame effects, error routing and the event log of a whole run.          *)
(***************************************************************************)
\* the TradeReceived events sent so far whose trade has a non-positive timestamp
InvalidTimestampEvents ==
    {i \in 1..Len(events) : events[i].type = "TradeReceived" /\ events[i].time <= 0}

\* C31: a trade with a non-positive timestamp is sent as TradeReceived like any
\* other, the step that handles it stays in the receive loop, and
\* invalid_timestamps counts exactly those trades.
C31_InvalidTimestampCounted ==
    /\ [][(pc = "handle_trades" /\ events' # events)
            => /\ events' = Append(events, TradeReceived(Head(pending)))
               /\ pc' \in {"handle_trades", "listening"}]_vars
    /\ [](state.invalid_timestamps = Cardinality(InvalidTimestampEvents))

\* the call the step made, as ops records it
LastOp == ops'[Len(ops')]

\* C32: a validate_trade_sequence call that accepts sets the coin's last-seen
\* identifier to the submitted one and leaves the duplicate counter alone; a
\* call that rejects adds exactly 1 to the duplicate counter and leaves the
\* map alone; either way every other coin's entry and every other field of
\* the state is unchanged.
C32_ValidateChangesOneThing ==
    [][(Len(ops') = Len(ops) + 1 /\ LastOp.op = "validate_trade_sequence")
         => IF LastOp.ok
            THEN /\ DOMAIN state'.last_trade_ids
                       = (DOMAIN state.last_trade_ids) \cup {LastOp.coin}
                 /\ state'.last_trade_ids[LastOp.coin] = LastOp.tid
                 /\ \A c \in (DOMAIN state.last_trade_ids) \ {LastOp.coin} :
                        state'.last_trade_ids[c] = state.last_trade_ids[c]
                 /\ state'.duplicate_trades = state.duplicate_trades
                 /\ [state' EXCEPT !.last_trade_ids = state.last_trade_ids] = state
            ELSE /\ state'.duplicate_trades = state.duplicate_trades + 1
                 /\ state'.last_trade_ids = state.last_trade_ids
                 /\ [state' EXCEPT !.duplicate_trades = state.duplicate_trades] = state]_vars

C32_Witness ==
    /\ Len(ops) = 3
    /\ ops[2] = ValidateOp("BTC", 1, FALSE)
    /\ ops[3] = ValidateOp("ETH", 2, TRUE)
    /\ state.duplicate_trades = 1
    /\ state.last_trade_ids = [c \in {"BTC", "ETH"} |-> IF c = "BTC" THEN 1 ELSE 2]

\* where each position of an attempt goes on to when nothing fails
Onward(position) ==
    CASE position = "connecting"    -> {"handshaking"}
      [] position = "handshaking"   -> {"subscribing"}
      [] position = "subscribing"   -> {"listening"}
      [] position = "listening"     -> {"handle_frame", "closing"}
      [] position = "handle_frame"  -> {"listening", "handle_trades"}
      [] position = "handle_trades" -> {"listening"}
      [] OTHER                      -> {}

\* C33: run() returns only from handle_connection_error and only with
\* MaxReconnectsExceeded (which needs a positive limit); an attempt leaves
\* each of its positions onward or to the failed position, never with a
\* result; the handler of a Text frame, parsed or not, and a Binary frame
\* leave the session in the receive loop.
C33_OnlyMaxReconnectsExceeded ==
    /\ [][(pc' = "returned" /\ pc # "returned")
            => /\ pc = "handle_connection_error"
               /\ result' = "MaxReconnectsExceeded"
               /\ max_reconnects > 0]_vars
    /\ [](pc = "returned" <=> result = "MaxReconnectsExceeded")
    /\ [][(pc \in {"connecting", "handshaking", "subscribing"} \cup ReceiveLoop /\ pc' # pc)
            => /\ pc' \in Onward(pc) \cup {"failed"}
               /\ result' = result]_vars
    /\ [][(pc \in {"handle_frame", "handle_trades"} /\ pc' # pc)
            => pc' \in Onward(pc) /\ failures' = failures]_vars
    /\ [][ReadsOther
            => pc' = "listening" /\ failures' = failures /\ result' = result]_vars

C33_Witness ==
    /\ pc = "returned"
    /\ result = "MaxReconnectsExceeded"
    /\ max_reconnects = 1
    /\ frames = 1
    /\ Len(events) = 5
    /\ events[5].type = "MessageReceived"

\* C34: handle_connection_error first adds 1 to the reconnect counter and
\* sends nothing; its next step either gives up, sending nothing, or sends
\* exactly one Reconnecting carrying the counter value, which is at least 1,
\* and goes to the delay; no other step sends Reconnecting; the delay sends
\* nothing; in the log every Reconnecting is followed directly by the next
\* attempt's Connecting and every Connecting but the first directly follows
\* a Reconnecting.
C34_ReconnectingOncePerRetry ==
    /\ [][(pc = "failed" /\ pc' # pc)
            => /\ state'.reconnect_count = state.reconnect_count + 1
               /\ events' = events]_vars
    /\ [][(pc = "handle_connection_error" /\ pc' = "sleeping")
            => /\ state' = state
               /\ Len(events') = Len(events) + 1
               /\ SubSeq(events', 1, Len(events)) = events
               /\ events'[Len(events')].type = "Reconnecting"
               /\ events'[Len(events')].attempt = state.reconnect_count]_vars
    /\ [][(pc = "handle_connection_error" /\ pc' = "returned") => events' = events]_vars
    /\ [][(Len(events') > Len(events) /\ events'[Len(events')].type = "Reconnecting")
            => pc = "handle_connection_error" /\ pc' = "sleeping"]_vars
    /\ [][(pc = "sleeping") => pc' = "connect_and_run" /\ events' = events]_vars
    /\ [](\A i \in 1..Len(events) :
            /\ events[i].type = "Reconnecting"
                 => /\ events[i].attempt >= 1
                    /\ i < Len(events) => events[i + 1].type = "Connecting"
            /\ (events[i].type = "Connecting" /\ i > 2)
                 => events[i - 1].type = "Reconnecting")

C34_Witness ==
    /\ pc = "connecting"
    /\ attempts = 3
    /\ CountEvents("Reconnecting") = 2
    /\ CountEvents("Connecting") = 3
    /\ CountEvents("Disconnected") = 1

\* C35: when a session leaves the receive loop, by the return of the Close arm
\* or by a read error, the last event sent is Disconnected.
C35_EndedSessionSendsDisconnected ==
    [][(pc \in ReceiveLoop /\ pc' = "failed")
         => events'[Len(events')].type = "Disconnected"]_vars

\* C36: Starting is the first event and is sent once, and once run() has
\* returned the last event is Stopping.
C36_StoppingEndsEveryReturn ==
    /\ events # <<>> => events[1].type = "Starting"
    /\ CountEvents("Starting") <= 1
    /\ pc = "returned" => events[Len(events)].type = "Stopping"

\* C37: the step that reads a Text frame sends MessageReceived and nothing
\* else; the handler's next step adds exactly 1 to total_messages_received,
\* whatever the payload parses to, and sends at most a SubscriptionConfirmed;
\* each turn of a trade loop sends one TradeReceived and leaves the counter
\* alone; so MessageReceived precedes every event derived from its frame.
\* The step that reads a Binary, Ping, Pong or Continuation frame sends
\* nothing and leaves the ClientState alone.  The counter equals the number
\* of MessageReceived events, less the one whose frame is not counted yet.
C37_OneMessageReceivedPerTextFrame ==
    /\ [][(frames' = frames + 1 /\ last_frame'.opcode = "Text")
            => /\ events' = Append(events, Ev("MessageReceived"))
               /\ state' = state
               /\ pc' = "handle_frame"]_vars
    /\ [][(pc = "handle_frame" /\ pc' # pc)
            => /\ state'.total_messages_received = state.total_messages_received + 1
               /\ \/ events' = events
                  \/ /\ from_str(last_frame.payload) = "SubscriptionResponse"
                     /\ events' = Append(events, SubscriptionConfirmed(last_frame.payload.coin))]_vars
    /\ [][(pc = "handle_trades" /\ events' # events)
            => /\ Len(events') = Len(events) + 1
               /\ SubSeq(events', 1, Len(events)) = events
               /\ events'[Len(events')].type = "TradeReceived"
               /\ state'.total_messages_received = state.total_messages_received]_vars
    /\ [][ReadsOther => events' = events /\ state' = state]_vars
    /\ [](state.total_messages_received
            = CountEvents("MessageReceived") - (IF pc = "handle_frame" THEN 1 ELSE 0))

C37_Witness ==
    /\ pc = "handle_trades"
    /\ last_frame.opcode = "Text"
    /\ state.total_messages_received = 1
    /\ Len(pending) = 1
    /\ events[Len(events) - 1] = Ev("MessageReceived")
    /\ events[Len(events)].type = "TradeReceived"

\* C38: trade_count equals the number of TradeReceived events sent so far,
\* no step lowers it, the start of an attempt leaves it alone, the dispatch
\* of a frame of trades enters the loop with the frame's batch, and each turn
\* of the loop counts the first trade not yet handled, sends its
\* TradeReceived and leaves the rest of the batch for the next turns.
C38_TradeCountCountsTradeEvents ==
    /\ [](state.trade_count = CountEvents("TradeReceived"))
    /\ [][state'.trade_count >= state.trade_count]_vars
    /\ [][attempts' # attempts => state'.trade_count = state.trade_count]_vars
    /\ [][(pc = "handle_frame" /\ pc' # pc
             /\ from_str(last_frame.payload) \in {"TradeData", "DirectTrades"})
            => /\ pending' = last_frame.payload.trades
               /\ state'.trade_count = state.trade_count
               /\ events' = events]_vars
    /\ [][(pc = "handle_trades" /\ events' # events)
            => /\ Len(events') = Len(events) + 1
               /\ events'[Len(events')].type = "TradeReceived"
               /\ events'[Len(events')].coin = pending[1].coin
               /\ events'[Len(events')].tid = pending[1].tid
               /\ events'[Len(events')].time = pending[1].time
               /\ pending' = Tail(pending)
               /\ state'.trade_count = state.trade_count + 1]_vars
    /\ [](pc # "handle_trades" <=> pending = <<>>)

C38_Witness ==
    /\ pc = "connecting"
    /\ attempts = 2
    /\ state.trade_count = 2
    /\ state.reconnect_count = 0
    /\ CountEvents("TradeReceived") = 2
    /\ \E i \in 1..(Len(events) - 1) :
          /\ events[i].type = "TradeReceived"
          /\ events[i + 1].type = "TradeReceived"
          /\ events[i] # events[i + 1]

(***************************************************************************)
(* The trade table of the presentation (UIController::handle_event).       *)
(***************************************************************************)
\* the positions of one kind of line in the printed table
LinesOf(kind) == {i \in 1..Len(output) : output[i] = kind}

\* the options under which print_header prints a line
HasHeader == ~quiet /\ format \in {"table", "csv"}

\* C39: the table holds at most one header line, the header is printed
\* exactly when a SubscriptionConfirmed or a TradeReceived has been handled,
\* it is the first line of the table whenever there is a line, and every
\* trade handled has its row.
C39_HeaderOnceBeforeFirstRow ==
    /\ Cardinality(LinesOf("header")) <= 1
    /\ output # <<>> => output[1] = "header"
    /\ header_printed <=> output # <<>>
    /\ header_printed
         <=> \E i \in 1..Len(received) :
                 received[i].type \in {"SubscriptionConfirmed", "TradeReceived"}
    /\ Cardinality(LinesOf("row")) = ui_trade_count

\* C39 as amended: print_header is called once, when the first
\* SubscriptionConfirmed or TradeReceived is handled; with a format that has a
\* header (table, csv) and quiet off it prints the one header line, which is
\* then the first line of the table; with json, minimal or quiet on no header
\* line is ever printed; every trade handled has its row.
C39_HeaderOnceWhenFormatHasOne ==
    /\ Cardinality(LinesOf("header")) <= 1
    /\ header_printed
         <=> \E i \in 1..Len(received) :
                 received[i].type \in {"SubscriptionConfirmed", "TradeReceived"}
    /\ HasHeader => /\ header_printed <=> output # <<>>
                    /\ output # <<>> => output[1] = "header"
    /\ ~HasHeader => LinesOf("header") = {}
    /\ Cardinality(LinesOf("row")) = ui_trade_count

C39_Witness ==
    /\ HasHeader
    /\ Len(received) = 4
    /\ received[1].type = "TradeReceived"
    /\ received[2].type = "SubscriptionConfirmed"
    /\ received[3].type = "Connecting"
    /\ received[4].type = "SubscriptionConfirmed"
    /\ output = <<"header", "row">>

=============================================================================
